---------------------------- MODULE Spec2Model ----------------------------
(***************************************************************************)
(* Order manager (src/order_manager.py): a menu loop over two JSON         *)
(* documents, orders.json (pending) and output_orders.json (completed).    *)
(*                                                                         *)
(* Text is a sequence of one-character strings, so that strip(), upper(),  *)
(* isdigit() and int() are computed character by character.  A document    *)
(* is a sequence of JSON tokens (the lexical level of the file's text), so *)
(* that json.dump and json.loads are a real encoder and a real parser.     *)
(* Every input() of the program is one step of the model: the step takes   *)
(* the line typed and runs the code up to the next input() or return.      *)
(***************************************************************************)
EXTENDS Integers, Sequences, FiniteSets, TLC

\* ------------------------------------------------------------------ bounds
\* successful add_order calls in one behaviour
MaxAdds == 2
\* items entered in one add_order call
MaxItems == 2
\* consecutive rejected (re-prompted) inputs at one prompt
MaxRejects == 1

\* ------------------------------------------------------------ text (str)
Whitespace == {" "}
AsciiDigits == {"0", "1", "2", "3", "4", "5", "6", "7", "8", "9"}
\* characters for which str.isdigit() is true but which int() does not accept
\* ("^2" stands for the one character U+00B2, SUPERSCRIPT TWO)
SuperscriptDigits == {"^2"}

DigitValue(c) ==
    CASE c = "0" -> 0 [] c = "1" -> 1 [] c = "2" -> 2 [] c = "3" -> 3
      [] c = "4" -> 4 [] c = "5" -> 5 [] c = "6" -> 6 [] c = "7" -> 7
      [] c = "8" -> 8 [] c = "9" -> 9

DigitChar(d) ==
    CASE d = 0 -> "0" [] d = 1 -> "1" [] d = 2 -> "2" [] d = 3 -> "3"
      [] d = 4 -> "4" [] d = 5 -> "5" [] d = 6 -> "6" [] d = 7 -> "7"
      [] d = 8 -> "8" [] d = 9 -> "9"

\* str.upper() on one character
UpperChar(c) ==
    CASE c = "a" -> "A" [] c = "b" -> "B" [] c = "c" -> "C" [] c = "x" -> "X"
      [] OTHER -> c

\* str.upper()
Upper(s) == [i \in DOMAIN s |-> UpperChar(s[i])]

RECURSIVE LStrip(_)
LStrip(s) ==
    IF Len(s) > 0 /\ s[1] \in Whitespace THEN LStrip(Tail(s)) ELSE s

RECURSIVE RStrip(_)
RStrip(s) ==
    IF Len(s) > 0 /\ s[Len(s)] \in Whitespace
    THEN RStrip(SubSeq(s, 1, Len(s) - 1))
    ELSE s

\* str.strip()
Strip(s) == RStrip(LStrip(s))

\* str.isdigit(): non-empty and every character is a digit character
IsDigit(s) ==
    /\ Len(s) > 0
    /\ \A i \in DOMAIN s : s[i] \in AsciiDigits \cup SuperscriptDigits

RECURSIVE DigitsValue(_, _)
DigitsValue(s, acc) ==
    IF Len(s) = 0 THEN acc
    ELSE DigitsValue(Tail(s), 10 * acc + DigitValue(Head(s)))

AllDecimal(s) == Len(s) > 0 /\ \A i \in DOMAIN s : s[i] \in AsciiDigits

\* int(text): an optional sign and decimal digits, ValueError (ok = FALSE)
\* otherwise; surrounding whitespace is accepted
ParseInt(text) ==
    LET s == Strip(text)
        signed == Len(s) > 0 /\ s[1] \in {"-", "+"}
        body == IF signed THEN Tail(s) ELSE s
    IN  IF AllDecimal(body)
        THEN [ok |-> TRUE,
              val |-> IF signed /\ s[1] = "-"
                      THEN 0 - DigitsValue(body, 0)
                      ELSE DigitsValue(body, 0)]
        ELSE [ok |-> FALSE, val |-> 0]

RECURSIVE NatToStr(_)
NatToStr(n) ==
    IF n < 10 THEN <<DigitChar(n)>>
    ELSE Append(NatToStr(n \div 10), DigitChar(n % 10))

\* the decimal text json.dump writes for an int
IntToStr(n) == IF n < 0 THEN <<"-">> \o NatToStr(0 - n) ELSE NatToStr(n)


\* ------------------------------------------------------- JSON documents
\* One lexical token of a JSON text: a bracket, an object key, a string or
\* a number.  s is the token's characters, k the key of a key token.
Tok(t) == [t |-> t, s |-> <<>>, k |-> ""]
KeyTok(k) == [t |-> "key", s |-> <<>>, k |-> k]
StrTok(s) == [t |-> "str", s |-> s, k |-> ""]
NumTok(n) == [t |-> "num", s |-> IntToStr(n), k |-> ""]

EncodeItem(item) ==
    << Tok("{"),
       KeyTok("name"), StrTok(item.name),
       KeyTok("price"), NumTok(item.price),
       KeyTok("quantity"), NumTok(item.quantity),
       Tok("}") >>

RECURSIVE EncodeItems(_)
EncodeItems(items) ==
    IF Len(items) = 0 THEN <<>>
    ELSE EncodeItem(Head(items)) \o EncodeItems(Tail(items))

EncodeOrder(order) ==
    << Tok("{"),
       KeyTok("order_id"), StrTok(order.order_id),
       KeyTok("customer"), StrTok(order.customer),
       KeyTok("items"), Tok("[") >>
    \o EncodeItems(order.items)
    \o << Tok("]"), Tok("}") >>

RECURSIVE EncodeOrders(_)
EncodeOrders(orders) ==
    IF Len(orders) = 0 THEN <<>>
    ELSE EncodeOrder(Head(orders)) \o EncodeOrders(Tail(orders))

\* json.dump(orders, file): the text written for a list of orders
JsonDump(orders) == <<Tok("[")>> \o EncodeOrders(orders) \o <<Tok("]")>>

ParseFail == [ok |-> FALSE, val |-> <<>>, rest |-> <<>>]

\* The JSON parser: a list becomes a sequence, an object a record, a string
\* its characters, a number its value.  rest is the input left unread.
RECURSIVE ParseValue(_), ParseElements(_, _), ParseMembers(_, _)
ParseValue(toks) ==
    IF Len(toks) = 0 THEN ParseFail
    ELSE LET h == Head(toks) IN
         CASE h.t = "str" -> [ok |-> TRUE, val |-> h.s, rest |-> Tail(toks)]
           [] h.t = "num" ->
                LET n == ParseInt(h.s) IN
                IF n.ok THEN [ok |-> TRUE, val |-> n.val, rest |-> Tail(toks)]
                ELSE ParseFail
           [] h.t = "[" -> ParseElements(Tail(toks), <<>>)
           [] h.t = "{" -> ParseMembers(Tail(toks), <<>>)
           [] OTHER -> ParseFail

ParseElements(toks, acc) ==
    IF Len(toks) = 0 THEN ParseFail
    ELSE IF Head(toks).t = "]"
    THEN [ok |-> TRUE, val |-> acc, rest |-> Tail(toks)]
    ELSE LET r == ParseValue(toks) IN
         IF r.ok THEN ParseElements(r.rest, Append(acc, r.val)) ELSE ParseFail

ParseMembers(toks, acc) ==
    IF Len(toks) = 0 THEN ParseFail
    ELSE IF Head(toks).t = "}"
    THEN [ok |-> TRUE, val |-> acc, rest |-> Tail(toks)]
    ELSE IF Head(toks).t = "key"
    THEN LET r == ParseValue(Tail(toks)) IN
         IF r.ok
         THEN ParseMembers(r.rest, (Head(toks).k :> r.val) @@ acc)
         ELSE ParseFail
    ELSE ParseFail

\* whitespace between tokens is skipped by the JSON scanner
IsNotWs(tok) == tok.t # "ws"

\* json.loads(content): one value and nothing after it, else JSONDecodeError
JsonLoads(content) ==
    LET toks == SelectSeq(content, IsNotWs)
        r == ParseValue(toks) IN
    IF r.ok /\ Len(r.rest) = 0 THEN [ok |-> TRUE, val |-> r.val]
    ELSE [ok |-> FALSE, val |-> <<>>]

\* A file: absent, or present with its text
AbsentFile == [exists |-> FALSE, text |-> <<>>]
FileWith(text) == [exists |-> TRUE, text |-> text]

\* file.read().strip(): whitespace removed at both ends of the text
RECURSIVE StripWs(_)
StripWs(text) ==
    IF Len(text) > 0 /\ Head(text).t = "ws" THEN StripWs(Tail(text))
    ELSE IF Len(text) > 0 /\ text[Len(text)].t = "ws"
    THEN StripWs(SubSeq(text, 1, Len(text) - 1))
    ELSE text

\* load_data(filename): [] when the file is absent (FileNotFoundError), when
\* its stripped content is empty, or when it does not parse
\* (JSONDecodeError); otherwise whatever value the text parses to
load_data(file) ==
    IF ~file.exists THEN <<>>
    ELSE LET content == StripWs(file.text) IN
         IF Len(content) = 0 THEN <<>>
         ELSE LET r == JsonLoads(content) IN
              IF r.ok THEN r.val ELSE <<>>

\* save_orders(filename, orders): the file after the write; the file is
\* opened with "w", so the previous content is replaced in full
save_orders(orders) == FileWith(JsonDump(orders))


\* ------------------------------------------------------------ the inputs
\* Lines the operator may type at each prompt (before strip()).
MenuInputs ==
    { <<"1">>, <<"2">>, <<" ", "3">>, <<"4">>, <<>>, <<"x">> }
OrderIdInputs ==
    { <<"a", "1">>, <<" ", "A", "1", " ">>, <<"b", "2">> }
CustomerInputs ==
    { <<" ", "B", "o", "b">>, <<>> }
\* The operator enters the items of an order from a card, in card order:
\* the n-th item of an order is the n-th line of the card (the card is
\* read again from its first line after its last).
ItemCard ==
    << [name |-> <<"C", "a", "k", "e", " ">>, price |-> <<"1", "0", "0">>],
       [name |-> <<" ", "T", "e", "a">>, price |-> <<"0">>],
       [name |-> <<"P", "i", "e">>, price |-> <<" ", "2", "5">>] >>
CardLine(n) == ItemCard[((n - 1) % Len(ItemCard)) + 1]
NameInputs(n) ==
    { CardLine(n).name, <<" ">>, <<>> }
PriceInputs(n) ==
    { CardLine(n).price, <<"-", "1">>, <<"x">>, <<>> }
QuantityInputs ==
    { <<"2">>, <<"0">>, <<"-", "2">>, <<"x">> }
SelectionInputs ==
    { <<>>, <<" ">>, <<"1">>, <<"2">>, <<"3">>, <<"0">>, <<"x">>, <<"^2">> }

\* ------------------------------------------------------------- the state
VARIABLES
    pc,                  \* where the program waits: a prompt, or ended
    line,                \* the last line typed at a prompt
    orders_json,         \* the file INPUT_FILE
    output_orders_json,  \* the file OUTPUT_FILE
    orders,              \* main: orders
    order_id,            \* add_order: order_id
    customer,            \* add_order: customer
    items,               \* add_order: items
    name,                \* add_order: name
    price,               \* add_order: price
    order,               \* process_order: order (<<>> while unset)
    completed_orders,    \* process_order: completed_orders
    processed_order,     \* main: processed_order (<<>> is None)
    output,              \* what was printed in answer to the last line
                         \* typed (prompts and listings aside)
    rejects,             \* consecutive re-prompts at the current prompt
    adds,                \* successful add_order calls so far
    total,               \* calculate_order_total: its return value
    pre                  \* the two files as they were when the current
                         \* operation was chosen at the menu

vars == << pc, line, orders_json, output_orders_json, orders, order_id,
           customer, items, name, price, order, completed_orders,
           processed_order, output, rejects, adds, total, pre >>

files == << orders_json, output_orders_json >>
add_locals == << order_id, customer, items, name, price >>
process_locals == << order, completed_orders >>

Msg(kind, id) == [kind |-> kind, id |-> id]
NoMsg == Msg("none", <<>>)

\* the locals of add_order once it has returned
AddLocalsGone ==
    /\ order_id' = <<>>
    /\ customer' = <<>>
    /\ items' = <<>>
    /\ name' = <<>>
    /\ price' = 0

\* the locals of process_order once it has returned
ProcessLocalsGone ==
    /\ order' = <<>>
    /\ completed_orders' = <<>>

\* the process has ended: nothing of its memory is left
MemoryGone ==
    /\ orders' = <<>>
    /\ AddLocalsGone
    /\ ProcessLocalsGone
    /\ processed_order' = <<>>
    /\ rejects' = 0

\* The program is started with each file absent or empty.
Init ==
    /\ pc = "menu"
    /\ line = <<>>
    /\ orders_json \in {AbsentFile, FileWith(<<>>), FileWith(<<Tok("ws")>>)}
    /\ output_orders_json \in {AbsentFile, FileWith(<<>>)}
    /\ orders = <<>>
    /\ order_id = <<>>
    /\ customer = <<>>
    /\ items = <<>>
    /\ name = <<>>
    /\ price = 0
    /\ order = <<>>
    /\ completed_orders = <<>>
    /\ processed_order = <<>>
    /\ output = NoMsg
    /\ rejects = 0
    /\ adds = 0
    /\ total = 0
    /\ pre = files

\* ------------------------------------------------------------------ main
\* Lines 153-154: every pass of the menu loop reads the choice and then
\* reloads orders from INPUT_FILE.
MenuRead(text, choice) ==
    /\ pc = "menu"
    /\ Strip(text) = choice
    /\ line' = text
    /\ orders' = load_data(orders_json)
    /\ rejects' = 0
    /\ pre' = files
    /\ UNCHANGED << files, add_locals, process_locals, adds, total >>

\* choice "1": add_order(orders) is entered and asks for the order id
MenuAdd ==
    /\ adds < MaxAdds
    /\ \E text \in MenuInputs : MenuRead(text, <<"1">>)
    /\ pc' = "add_order_id"
    /\ output' = NoMsg
    /\ UNCHANGED processed_order

\* choice "2": print_order_report(orders)
MenuReport ==
    /\ \E text \in MenuInputs : MenuRead(text, <<"2">>)
    /\ pc' = "menu"
    /\ output' = Msg("report", <<>>)
    /\ UNCHANGED processed_order

\* mutant: the test of line 112 is missing, the selection is asked
MenuProcessEmpty_Prompts ==
    /\ \E text \in MenuInputs : MenuRead(text, <<"3">>)
    /\ Len(orders') = 0
    /\ pc' = "process_choice"
    /\ output' = NoMsg
    /\ UNCHANGED processed_order

\* choice "3" with no pending order: process_order returns at once
MenuProcessEmpty ==
    /\ \E text \in MenuInputs : MenuRead(text, <<"3">>)
    /\ Len(orders') = 0
    /\ pc' = "menu"
    /\ output' = Msg("no_pending", <<>>)
    /\ processed_order' = <<>>

\* choice "3" with pending orders: the list is printed, a selection asked
MenuProcess ==
    /\ \E text \in MenuInputs : MenuRead(text, <<"3">>)
    /\ Len(orders') > 0
    /\ pc' = "process_choice"
    /\ output' = NoMsg
    /\ UNCHANGED processed_order

\* choice "4" or an empty line: the loop ends and main returns
MenuExit ==
    /\ pc = "menu"
    /\ \E text \in MenuInputs :
          /\ Strip(text) \in {<<"4">>, <<>>}
          /\ line' = text
    /\ pc' = "exit"
    /\ output' = NoMsg
    /\ MemoryGone
    /\ pre' = files
    /\ UNCHANGED << files, adds, total >>

\* any other choice
MenuInvalid ==
    /\ \E text \in MenuInputs :
          /\ Strip(text) \notin {<<>>, <<"1">>, <<"2">>, <<"3">>, <<"4">>}
          /\ MenuRead(text, Strip(text))
    /\ pc' = "menu"
    /\ output' = Msg("invalid_option", <<>>)
    /\ UNCHANGED processed_order

\* The ended program is run again: the files are what it left behind.
Start ==
    /\ pc \in {"exit", "crashed", "stopped"}
    /\ pc' = "menu"
    /\ output' = NoMsg
    /\ pre' = files
    /\ UNCHANGED << files, line, orders, add_locals, process_locals,
                    processed_order, rejects, adds, total >>

\* ------------------------------------------------------------- add_order
\* mutant: the test compares the customer, not the id, with the id typed
IdExists_Never(list, id) == \E i \in DOMAIN list : list[i].customer = id

\* mutant: the test looks in the completed orders too
IdExists_AlsoCompleted(list, id) ==
    \/ \E i \in DOMAIN list : list[i].order_id = id
    \/ \E i \in DOMAIN load_data(output_orders_json) :
          load_data(output_orders_json)[i].order_id = id

\* any(order["order_id"] == order_id for order in orders)
IdExists(list, id) == \E i \in DOMAIN list : list[i].order_id = id

\* mutant: the id is trimmed and not uppercased
NormalizeId_NoUpper(text) == Strip(text)

\* order_id = input(...).strip().upper()
NormalizeId(text) == Upper(Strip(text))

\* the order id typed is already pending: the duplicate result is returned
AddOrderIdDuplicate ==
    /\ pc = "add_order_id"
    /\ \E text \in OrderIdInputs :
          /\ IdExists(orders, NormalizeId(text))
          /\ line' = text
          /\ output' = Msg("duplicate", NormalizeId(text))
    /\ pc' = "menu"
    /\ AddLocalsGone
    /\ UNCHANGED << files, orders, process_locals, processed_order,
                    rejects, adds, total, pre >>

\* mutant: the test of line 67 is missing, any id typed is taken
AddOrderId_Unchecked ==
    /\ pc = "add_order_id"
    /\ \E text \in OrderIdInputs :
          /\ line' = text
          /\ order_id' = NormalizeId(text)
    /\ pc' = "add_customer"
    /\ UNCHANGED << files, orders, customer, items, name, price,
                    process_locals, processed_order, output, rejects,
                    adds, total, pre >>

\* the order id typed is new: the customer is asked next
AddOrderId ==
    /\ pc = "add_order_id"
    /\ \E text \in OrderIdInputs :
          /\ ~IdExists(orders, NormalizeId(text))
          /\ line' = text
          /\ order_id' = NormalizeId(text)
    /\ pc' = "add_customer"
    /\ UNCHANGED << files, orders, customer, items, name, price,
                    process_locals, processed_order, output, rejects,
                    adds, total, pre >>

\* customer = input(...).strip(); items = []
AddCustomer ==
    /\ pc = "add_customer"
    /\ \E text \in CustomerInputs :
          /\ line' = text
          /\ customer' = Strip(text)
    /\ items' = <<>>
    /\ pc' = "add_name"
    /\ UNCHANGED << files, orders, order_id, name, price, process_locals,
                    processed_order, output, rejects, adds, total,
                    pre >>

\* a non-empty item name: the price is asked next
AddItemName ==
    /\ pc = "add_name"
    /\ Len(items) < MaxItems
    /\ \E text \in NameInputs(Len(items) + 1) :
          /\ Len(Strip(text)) > 0
          /\ line' = text
          /\ name' = Strip(text)
    /\ pc' = "add_price"
    /\ UNCHANGED << files, orders, order_id, customer, items, price,
                    process_locals, processed_order, output, rejects,
                    adds, total, pre >>

\* a price that int() refuses or that is negative: printed, asked again
AddPriceRejected ==
    /\ pc = "add_price"
    /\ rejects < MaxRejects
    /\ \E text \in PriceInputs(Len(items) + 1) :
          LET p == ParseInt(Strip(text)) IN
          /\ line' = text
          /\ \/ /\ ~p.ok
                /\ output' = Msg("not_integer", <<>>)
             \/ /\ p.ok
                /\ p.val < 0
                /\ output' = Msg("negative_price", <<>>)
    /\ rejects' = rejects + 1
    /\ UNCHANGED << pc, files, orders, add_locals, process_locals,
                    processed_order, adds, total, pre >>

\* mutant: the test of line 81 is missing, any integer price is taken
AddPrice_AnyInteger ==
    /\ pc = "add_price"
    /\ \E text \in PriceInputs(Len(items) + 1) :
          LET p == ParseInt(Strip(text)) IN
          /\ p.ok
          /\ line' = text
          /\ price' = p.val
    /\ pc' = "add_quantity"
    /\ output' = NoMsg
    /\ rejects' = 0
    /\ UNCHANGED << files, orders, order_id, customer, items, name,
                    process_locals, processed_order, adds, total,
                    pre >>

\* an integer price >= 0: the quantity is asked next
AddPrice ==
    /\ pc = "add_price"
    /\ \E text \in PriceInputs(Len(items) + 1) :
          LET p == ParseInt(Strip(text)) IN
          /\ p.ok
          /\ ~(p.val < 0)
          /\ line' = text
          /\ price' = p.val
    /\ pc' = "add_quantity"
    /\ output' = NoMsg
    /\ rejects' = 0
    /\ UNCHANGED << files, orders, order_id, customer, items, name,
                    process_locals, processed_order, adds, total,
                    pre >>

\* a quantity that int() refuses or that is <= 0: printed, asked again
AddQuantityRejected ==
    /\ pc = "add_quantity"
    /\ rejects < MaxRejects
    /\ \E text \in QuantityInputs :
          LET q == ParseInt(Strip(text)) IN
          /\ line' = text
          /\ \/ /\ ~q.ok
                /\ output' = Msg("not_integer", <<>>)
             \/ /\ q.ok
                /\ q.val <= 0
                /\ output' = Msg("non_positive_quantity", <<>>)
    /\ rejects' = rejects + 1
    /\ UNCHANGED << pc, files, orders, add_locals, process_locals,
                    processed_order, adds, total, pre >>

\* mutant: the item is put in front of the items entered before
WithItem_Prepend(its, n, p, q) ==
    <<[name |-> n, price |-> p, quantity |-> q]>> \o its

\* items.append({"name": name, "price": price, "quantity": quantity})
WithItem(its, n, p, q) ==
    Append(its, [name |-> n, price |-> p, quantity |-> q])

\* an integer quantity > 0: the item is appended, the next name asked
AddQuantity ==
    /\ pc = "add_quantity"
    /\ \E text \in QuantityInputs :
          LET q == ParseInt(Strip(text)) IN
          /\ q.ok
          /\ ~(q.val <= 0)
          /\ line' = text
          /\ items' = WithItem(items, name, price, q.val)
    /\ pc' = "add_name"
    /\ output' = NoMsg
    /\ rejects' = 0
    /\ UNCHANGED << files, orders, order_id, customer, name, price,
                    process_locals, processed_order, adds, total,
                    pre >>

\* new_order = {"order_id": order_id, "customer": customer, "items": items}
NewOrder(id, cust, its) ==
    [order_id |-> id, customer |-> cust, items |-> its]

\* mutant: the test of line 101 is missing, the order without items is
\* appended and saved
AddNoItems_Appends ==
    /\ pc = "add_name"
    /\ \E text \in NameInputs(Len(items) + 1) :
          /\ Len(Strip(text)) = 0
          /\ line' = text
    /\ Len(items) = 0
    /\ orders' = Append(orders, NewOrder(order_id, customer, items))
    /\ orders_json' = save_orders(orders')
    /\ pc' = "menu"
    /\ output' = Msg("added", order_id)
    /\ AddLocalsGone
    /\ UNCHANGED << output_orders_json, process_locals, processed_order,
                    rejects, adds, total, pre >>

\* an empty item name with no item entered: the no-items result
AddNoItems ==
    /\ pc = "add_name"
    /\ \E text \in NameInputs(Len(items) + 1) :
          /\ Len(Strip(text)) = 0
          /\ line' = text
    /\ Len(items) = 0
    /\ pc' = "menu"
    /\ output' = Msg("no_items", <<>>)
    /\ AddLocalsGone
    /\ UNCHANGED << files, orders, process_locals, processed_order,
                    rejects, adds, total, pre >>

\* an empty item name after at least one item: the order is appended to
\* orders and orders is saved to INPUT_FILE
AddOrder ==
    /\ pc = "add_name"
    /\ \E text \in NameInputs(Len(items) + 1) :
          /\ Len(Strip(text)) = 0
          /\ line' = text
    /\ Len(items) > 0
    /\ orders' = Append(orders, NewOrder(order_id, customer, items))
    /\ orders_json' = save_orders(orders')
    /\ pc' = "menu"
    /\ output' = Msg("added", order_id)
    /\ adds' = adds + 1
    /\ AddLocalsGone
    /\ UNCHANGED << output_orders_json, process_locals, processed_order,
                    rejects, total, pre >>

\* --------------------------------------------------------- process_order
\* mutant: pop() without its index removes the last element
Pop_Last(list, k) == SubSeq(list, 1, Len(list) - 1)

\* orders.pop(index): the list without its element at 1-based position k
Pop(list, k) == SubSeq(list, 1, k - 1) \o SubSeq(list, k + 1, Len(list))

\* the selection is refused by the test of lines 124-128
SelectionRefused(choice, list) ==
    \/ ~IsDigit(choice)
    \/ ParseInt(choice).val < 1
    \/ ParseInt(choice).val > Len(list)

\* int(choice) raises ValueError inside the test of lines 124-128:
\* isdigit() accepted the text and int() does not
SelectionRaises(choice) == IsDigit(choice) /\ ~ParseInt(choice).ok

\* mutant: the completed orders are not loaded before the append
CompletedWith_Fresh(file, o) == <<o>>

\* lines 135-136: the completed orders loaded from OUTPUT_FILE, with the
\* order appended
CompletedWith(file, o) == Append(load_data(file), o)

\* mutant: the order is popped before the selection is asked, so a cancel
\* returns with the first order gone from orders
ProcessCancel_Pops ==
    /\ pc = "process_choice"
    /\ \E text \in SelectionInputs :
          /\ Len(Strip(text)) = 0
          /\ line' = text
    /\ pc' = "menu"
    /\ output' = Msg("cancelled", <<>>)
    /\ processed_order' = <<>>
    /\ orders' = Tail(orders)
    /\ ProcessLocalsGone
    /\ UNCHANGED << files, add_locals, rejects, adds, total, pre >>

\* an empty selection: the cancelled result
ProcessCancel ==
    /\ pc = "process_choice"
    /\ \E text \in SelectionInputs :
          /\ Len(Strip(text)) = 0
          /\ line' = text
    /\ pc' = "menu"
    /\ output' = Msg("cancelled", <<>>)
    /\ processed_order' = <<>>
    /\ ProcessLocalsGone
    /\ UNCHANGED << files, orders, add_locals, rejects, adds, total,
                    pre >>

\* a selection that is no number of the list: printed, asked again
ProcessRejected ==
    /\ pc = "process_choice"
    /\ rejects < MaxRejects
    /\ \E text \in SelectionInputs :
          /\ Len(Strip(text)) > 0
          /\ ~SelectionRaises(Strip(text))
          /\ SelectionRefused(Strip(text), orders)
          /\ line' = text
    /\ output' = Msg("invalid_number", <<>>)
    /\ rejects' = rejects + 1
    /\ UNCHANGED << pc, files, orders, add_locals, process_locals,
                    processed_order, adds, total, pre >>

\* a selection for which int(choice) raises: nothing catches the
\* ValueError and the program ends with a traceback
ProcessValueError ==
    /\ pc = "process_choice"
    /\ \E text \in SelectionInputs :
          /\ Len(Strip(text)) > 0
          /\ SelectionRaises(Strip(text))
          /\ line' = text
    /\ pc' = "crashed"
    /\ output' = Msg("traceback", <<>>)
    /\ MemoryGone
    /\ UNCHANGED << files, adds, total, pre >>

\* mutant: lines 138 and 139 are exchanged, OUTPUT_FILE is written first
\* and INPUT_FILE is left for the next step
ProcessSelect_OutputFirst ==
    /\ pc = "process_choice"
    /\ \E text \in SelectionInputs :
          LET choice == Strip(text) IN
          /\ Len(choice) > 0
          /\ ~SelectionRaises(choice)
          /\ ~SelectionRefused(choice, orders)
          /\ line' = text
          /\ LET index == ParseInt(choice).val IN
             /\ order' = <<orders[index]>>
             /\ orders' = Pop(orders, index)
    /\ completed_orders' = CompletedWith(output_orders_json, order'[1])
    /\ output_orders_json' = save_orders(completed_orders')
    /\ pc' = "save_output"
    /\ output' = NoMsg
    /\ rejects' = 0
    /\ UNCHANGED << orders_json, add_locals, processed_order,
                    adds, total, pre >>

\* a valid selection, lines 132-138: the order is popped, the completed
\* orders are loaded, the order is appended to them and orders is saved
\* to INPUT_FILE; the write of OUTPUT_FILE is the next step
ProcessSelect ==
    /\ pc = "process_choice"
    /\ \E text \in SelectionInputs :
          LET choice == Strip(text) IN
          /\ Len(choice) > 0
          /\ ~SelectionRaises(choice)
          /\ ~SelectionRefused(choice, orders)
          /\ line' = text
          /\ LET index == ParseInt(choice).val IN
             /\ order' = <<orders[index]>>
             /\ orders' = Pop(orders, index)
    /\ completed_orders' = CompletedWith(output_orders_json, order'[1])
    /\ orders_json' = save_orders(orders')
    /\ pc' = "save_output"
    /\ output' = NoMsg
    /\ rejects' = 0
    /\ UNCHANGED << output_orders_json, add_locals, processed_order,
                    adds, total, pre >>

\* line 139 and the return: the completed orders are saved to OUTPUT_FILE
\* and main prints the result and the order
SaveOutput ==
    /\ pc = "save_output"
    /\ output_orders_json' = save_orders(completed_orders)
    /\ pc' = "menu"
    /\ output' = Msg("dispatched", order[1].order_id)
    /\ processed_order' = order
    /\ ProcessLocalsGone
    /\ UNCHANGED << line, orders_json, orders, add_locals, rejects, adds,
                    total, pre >>

\* ------------------------------------------------- stops and failed writes
\* The process is stopped between the write of INPUT_FILE and the write of
\* OUTPUT_FILE.
Interrupted ==
    /\ pc = "save_output"
    /\ pc' = "stopped"
    /\ output' = NoMsg
    /\ MemoryGone
    /\ UNCHANGED << line, files, adds, total, pre >>

\* The write of OUTPUT_FILE fails: open() raises and the file is as it was,
\* or the file was opened (and so emptied) and json.dump raises after
\* writing a part of the text.  Nothing catches the error.
OutputWriteFails ==
    /\ pc = "save_output"
    /\ \/ UNCHANGED output_orders_json
       \/ \E n \in {0, 1, Len(JsonDump(completed_orders)) - 1} :
             output_orders_json' =
                 FileWith(SubSeq(JsonDump(completed_orders), 1, n))
    /\ pc' = "crashed"
    /\ output' = Msg("traceback", <<>>)
    /\ MemoryGone
    /\ UNCHANGED << line, orders_json, adds, total, pre >>

\* ------------------------------------------------------- specifications
Next ==
    \/ MenuAdd
    \/ MenuReport
    \/ MenuProcessEmpty
    \/ MenuProcess
    \/ MenuExit
    \/ MenuInvalid
    \/ Start
    \/ AddOrderIdDuplicate
    \/ AddOrderId
    \/ AddCustomer
    \/ AddItemName
    \/ AddPriceRejected
    \/ AddPrice
    \/ AddQuantityRejected
    \/ AddQuantity
    \/ AddNoItems
    \/ AddOrder
    \/ ProcessCancel
    \/ ProcessRejected
    \/ ProcessValueError
    \/ ProcessSelect
    \/ SaveOutput

\* every write succeeds and the program is never stopped from outside
Spec == Init /\ [][Next]_vars

NextCrash ==
    \/ Next
    \/ Interrupted
    \/ OutputWriteFails

\* the program may be stopped, or its write may fail, between the two
\* writes of process_order
SpecCrash == Init /\ [][NextCrash]_vars

\* ------------------------------------------- the functions on their own
\* load_data, save_orders, calculate_order_total and _print_single_order
\* applied to the orders add_order can build and to a file in any state.

\* the type of the value load_data returns.  json.loads gives a list for
\* "[...]", a dict for "{...}", a str for a string and an int for a number;
\* here an empty dict and an empty list are both <<>>, so the type is kept
\* apart from the value.
JsonType(toks) ==
    CASE Head(toks).t = "[" -> "list"
      [] Head(toks).t = "{" -> "dict"
      [] Head(toks).t = "str" -> "str"
      [] OTHER -> "int"

load_data_type(file) ==
    IF ~file.exists THEN "list"
    ELSE LET content == StripWs(file.text) IN
         IF Len(content) = 0 THEN "list"
         ELSE IF JsonLoads(content).ok
         THEN JsonType(SelectSeq(content, IsNotWs))
         ELSE "list"

RECURSIVE SumOf(_)
SumOf(numbers) ==
    IF Len(numbers) = 0 THEN 0
    ELSE Head(numbers) + SumOf(Tail(numbers))

\* mutant: price and quantity are added, not multiplied
calculate_order_total_Adds(o) ==
    SumOf([i \in DOMAIN o.items |->
              o.items[i].price + o.items[i].quantity])

\* sum(item["price"] * item["quantity"] for item in order["items"])
calculate_order_total(o) ==
    SumOf([i \in DOMAIN o.items |->
              o.items[i].price * o.items[i].quantity])

\* lines 51-54: total after the loop over the items left, entered with tot
RECURSIVE TotalLoop(_, _)
TotalLoop(its, tot) ==
    IF Len(its) = 0 THEN tot
    ELSE LET subtotal == Head(its).price * Head(its).quantity IN
         TotalLoop(Tail(its), tot + subtotal)

\* line 60: the text printed for the total of the order
PrintedTotal(o) == IntToStr(TotalLoop(o.items, 0))

\* the items add_order builds from the first n lines of the card, each
\* with the quantity "2"
RECURSIVE ItemsOf(_)
ItemsOf(n) ==
    IF n = 0 THEN <<>>
    ELSE WithItem(ItemsOf(n - 1), Strip(CardLine(n).name),
                  ParseInt(Strip(CardLine(n).price)).val,
                  ParseInt(<<"2">>).val)

\* the orders add_order builds: an id and a customer typed, and items
OrdersOf ==
    { NewOrder(NormalizeId(h[1]), Strip(h[2]), ItemsOf(n)) :
        h \in { << <<"a", "1">>, <<" ", "B", "o", "b">> >>,
                << <<"b", "2">>, <<>> >> },
        n \in 0..MaxItems }

\* the lists of at most MaxAdds such orders
Collections ==
    UNION { [1..n -> OrdersOf] : n \in 0..MaxAdds }

\* the states a file may be found in: absent, empty, blank, cut short,
\* holding a number, an object or a list of numbers, or holding orders
SlotStates ==
    { AbsentFile,
      FileWith(<<>>),
      FileWith(<<Tok("ws")>>),
      FileWith(<<Tok("["), Tok("{")>>),
      FileWith(<<NumTok(0)>>),
      FileWith(<<Tok("{"), Tok("}")>>),
      FileWith(<<Tok("["), NumTok(0), Tok("]")>>),
      FileWith(JsonDump(<<>>)),
      FileWith(JsonDump(<<NewOrder(<<"A", "1">>, <<>>, ItemsOf(1))>>)) }

InitFunctions ==
    /\ pc = "call"
    /\ line = <<>>
    /\ orders_json = AbsentFile
    /\ output_orders_json \in SlotStates
    /\ orders \in Collections
    /\ order_id = <<>>
    /\ customer = <<>>
    /\ items = <<>>
    /\ name = <<>>
    /\ price = 0
    /\ order = <<>>
    /\ completed_orders = <<>>
    /\ processed_order = <<>>
    /\ output = NoMsg
    /\ rejects = 0
    /\ adds = 0
    /\ total = 0
    /\ pre = files

\* mutant: the file is opened with "a", the text is written after the old
SaveOrders_Appends ==
    /\ pc = "call"
    /\ output_orders_json' =
          FileWith(output_orders_json.text \o JsonDump(orders))
    /\ pc' = "saved"
    /\ UNCHANGED << line, orders_json, orders, add_locals, process_locals,
                    processed_order, output, rejects, adds, total,
                    pre >>

\* save_orders(OUTPUT_FILE, orders)
SaveOrders ==
    /\ pc = "call"
    /\ output_orders_json' = save_orders(orders)
    /\ pc' = "saved"
    /\ UNCHANGED << line, orders_json, orders, add_locals, process_locals,
                    processed_order, output, rejects, adds, total,
                    pre >>

\* completed_orders = load_data(OUTPUT_FILE), of the file as found or as
\* just saved
LoadData ==
    /\ pc \in {"call", "saved"}
    /\ completed_orders' = load_data(output_orders_json)
    /\ pc' = IF pc = "call" THEN "loaded" ELSE "reloaded"
    /\ UNCHANGED << line, files, orders, add_locals, order,
                    processed_order, output, rejects, adds, total,
                    pre >>

\* total = calculate_order_total(order), for an order of the list
CalculateOrderTotal ==
    /\ pc = "call"
    /\ \E i \in DOMAIN orders :
          /\ order' = <<orders[i]>>
          /\ total' = calculate_order_total(orders[i])
    /\ pc' = "totalled"
    /\ UNCHANGED << line, files, orders, add_locals, completed_orders,
                    processed_order, output, rejects, adds, pre >>

\* _print_single_order(order), for the same order
PrintSingleOrder ==
    /\ pc = "totalled"
    /\ output' = Msg("order_total", PrintedTotal(order[1]))
    /\ pc' = "printed"
    /\ UNCHANGED << line, files, orders, add_locals, process_locals,
                    processed_order, rejects, adds, total, pre >>

NextFunctions ==
    \/ SaveOrders
    \/ LoadData
    \/ CalculateOrderTotal
    \/ PrintSingleOrder

SpecFunctions == InitFunctions /\ [][NextFunctions]_vars



\* ------------------------------------------------------------ properties
Range(seq) == { seq[i] : i \in DOMAIN seq }
IsPrefix(a, b) == Len(a) <= Len(b) /\ SubSeq(b, 1, Len(a)) = a

\* the pending and completed collections as the files hold them now, and
\* as they held them when the current operation was chosen
PendingDoc == load_data(orders_json)
CompletedDoc == load_data(output_orders_json)
PrePending == load_data(pre[1])
PreCompleted == load_data(pre[2])

\* list without its k-th element, position by position
Without(list, k) ==
    [i \in 1..(Len(list) - 1) |-> IF i < k THEN list[i] ELSE list[i + 1]]

\* the number a selection line stands for (0: none)
SelectionNumber(text) ==
    CASE text = <<"1">> -> 1
      [] text = <<"2">> -> 2
      [] text = <<"3">> -> 3
      [] OTHER -> 0

\* the order id a line, or a stored id, is a spelling of
IdClass(text) ==
    CASE text \in {<<"a", "1">>, <<" ", "A", "1", " ">>, <<"A", "1">>} -> "A1"
      [] text \in {<<"b", "2">>, <<"B", "2">>} -> "B2"
      [] OTHER -> "other"

\* the trimmed, uppercased form of each order id typed
NormalId(text) ==
    CASE IdClass(text) = "A1" -> <<"A", "1">>
      [] IdClass(text) = "B2" -> <<"B", "2">>
      [] OTHER -> <<"?">>

\* a line of nothing but blanks
IsBlank(text) == text \in {<<>>, <<" ">>}

\* the items an order entered from the card holds, in card order
CardItems ==
    << [name |-> <<"C", "a", "k", "e">>, price |-> 100, quantity |-> 2],
       [name |-> <<"T", "e", "a">>, price |-> 0, quantity |-> 2],
       [name |-> <<"P", "i", "e">>, price |-> 25, quantity |-> 2] >>
FromCard(its) ==
    \A i \in DOMAIN its : its[i] = CardItems[((i - 1) % Len(CardItems)) + 1]

Dispatched == pc = "menu" /\ output.kind = "dispatched"

\* C1: a dispatch with the valid selection k removes exactly the k-th order
\* from pending and appends that order, unchanged, at the end of completed;
\* len(pending) + len(completed) is what it was; in memory (once lines
\* 132-138 have run) and in the two files (once the operation has returned).
C1_DispatchMovesOne ==
    LET k == SelectionNumber(line) IN
    /\ pc = "save_output" =>
          /\ k \in 1..Len(PrePending)
          /\ order = <<PrePending[k]>>
          /\ orders = Without(PrePending, k)
          /\ completed_orders = PreCompleted \o <<PrePending[k]>>
          /\ Len(orders) + Len(completed_orders)
                = Len(PrePending) + Len(PreCompleted)
    /\ Dispatched =>
          /\ k \in 1..Len(PrePending)
          /\ processed_order = <<PrePending[k]>>
          /\ PendingDoc = Without(PrePending, k)
          /\ CompletedDoc = PreCompleted \o <<PrePending[k]>>
          /\ Len(PendingDoc) + Len(CompletedDoc)
                = Len(PrePending) + Len(PreCompleted)
          /\ orders = PendingDoc

\* C1 witness: the first of two pending orders has been dispatched
C1_Witness ==
    /\ Dispatched
    /\ Len(PrePending) = 2
    /\ line = <<"1">>
    /\ Len(CompletedDoc) = 1

\* C2 (as claimed): at every point, every order that was pending when the
\* operation was chosen is in the pending file or in the completed file.
C2_NoPartialState ==
    \A i \in DOMAIN PrePending :
        PrePending[i] \in Range(PendingDoc) \cup Range(CompletedDoc)

\* C3: an order id typed that is a spelling (case, surrounding blanks) of
\* the id of a pending order is answered with the duplicate result; no order
\* is created, orders is unchanged and neither file is written.
C3_DuplicateRejected ==
    [][ ( /\ pc = "add_order_id"
          /\ \E i \in DOMAIN orders :
                IdClass(orders[i].order_id) = IdClass(line') )
        => ( /\ pc' = "menu"
             /\ output' = Msg("duplicate", NormalId(line'))
             /\ orders' = orders
             /\ adds' = adds
             /\ UNCHANGED files ) ]_vars

\* C3 witness: "a1" has been refused against a pending order
C3_Witness ==
    /\ pc = "menu"
    /\ output = Msg("duplicate", <<"A", "1">>)
    /\ line = <<"a", "1">>
    /\ Len(PendingDoc) > 0

\* C4: ending the item entry with no item gives the no-items result; orders
\* and both files are as they were.
C4_NoItemsRejected ==
    /\ [][ ( pc = "add_name" /\ Len(items) = 0 /\ IsBlank(line') )
           => ( /\ pc' = "menu"
                /\ output' = Msg("no_items", <<>>)
                /\ orders' = orders
                /\ adds' = adds
                /\ UNCHANGED files ) ]_vars
    /\ []( (pc = "menu" /\ output.kind = "no_items")
           => (files = pre /\ orders = PrePending /\ PendingDoc = orders) )

\* C4 witness: the no-items result with an order pending
C4_Witness ==
    /\ pc = "menu"
    /\ output.kind = "no_items"
    /\ Len(orders) = 1

\* C5: a successful add appends exactly one order at the end of pending:
\* its id is the trimmed, uppercased id typed and its items are the items
\* entered, in entry order; the orders that were pending and the completed
\* file are unchanged; the pending file holds orders when it returns.
C5_AddAppends ==
    /\ []( pc = "add_customer" => order_id = NormalId(line) )
    /\ [][ ( pc \in {"add_customer", "add_name", "add_price", "add_quantity"}
             /\ pc' # "menu" )
           => order_id' = order_id ]_vars
    /\ [][ ( pc = "add_name" /\ Len(items) > 0 /\ IsBlank(line') )
           => ( /\ pc' = "menu"
                /\ output' = Msg("added", order_id)
                /\ orders' = orders \o << [order_id |-> order_id,
                                           customer |-> customer,
                                           items |-> items] >>
                /\ load_data(orders_json') = orders'
                /\ output_orders_json' = output_orders_json ) ]_vars
    /\ []( (pc = "menu" /\ output.kind = "added")
           => LET new == orders[Len(orders)] IN
              /\ orders = PrePending \o <<new>>
              /\ new.order_id = output.id
              /\ new.order_id \in {<<"A", "1">>, <<"B", "2">>}
              /\ new.customer \in {<<"B", "o", "b">>, <<>>}
              /\ Len(new.items) >= 1
              /\ FromCard(new.items)
              /\ PendingDoc = orders
              /\ output_orders_json = pre[2] )

\* C5 witness: a second order, of two items, has been added
C5_Witness ==
    /\ pc = "menu"
    /\ output.kind = "added"
    /\ Len(orders) = 2
    /\ Len(orders[2].items) = 2
    /\ orders[2].items[1].name = <<"C", "a", "k", "e">>


\* C6: the completed file only grows at its end: a step leaves the file as
\* it is, or what the file held before is a prefix of what it holds after.
C6_CompletedOnlyGrows ==
    [][ \/ output_orders_json' = output_orders_json
        \/ IsPrefix(load_data(output_orders_json),
                    load_data(output_orders_json')) ]_vars

\* C6 witness: two orders have been dispatched one after the other
C6_Witness ==
    /\ Dispatched
    /\ Len(PreCompleted) = 1
    /\ Len(CompletedDoc) = 2

\* C7: choosing the dispatch with nothing pending gives the nothing-to-
\* dispatch result at once, no selection is asked, and orders and both
\* files are as they were.
C7_EmptyDispatch ==
    [][ ( /\ pc = "menu"
          /\ line' = <<" ", "3">>
          /\ Len(load_data(orders_json)) = 0 )
        => ( /\ pc' = "menu"
             /\ output' = Msg("no_pending", <<>>)
             /\ orders' = <<>>
             /\ processed_order' = <<>>
             /\ UNCHANGED files ) ]_vars

\* C7 witness: nothing to dispatch, after the only order was dispatched
C7_Witness ==
    /\ pc = "menu"
    /\ output.kind = "no_pending"
    /\ Len(CompletedDoc) = 1

\* C8: an empty selection ends the dispatch with the cancelled result,
\* after any number of refused selections; orders and both files are as
\* they were when the dispatch was chosen.
C8_CancelLeavesAll ==
    /\ [][ ( pc = "process_choice" /\ IsBlank(line') )
           => ( /\ pc' = "menu"
                /\ output' = Msg("cancelled", <<>>)
                /\ orders' = orders
                /\ processed_order' = <<>>
                /\ UNCHANGED files ) ]_vars
    /\ []( (pc = "menu" /\ output.kind = "cancelled")
           => ( /\ files = pre
                /\ orders = PrePending
                /\ PendingDoc = orders
                /\ Len(orders) > 0 ) )

\* C8 witness: a cancel that followed a refused selection
C8_Witness ==
    /\ pc = "menu"
    /\ output.kind = "cancelled"
    /\ rejects >= 1
    /\ Len(PendingDoc) = 2

\* C9 (as claimed): a selection that is no number of 1..len(pending) is
\* refused and asked again, removing no order and writing no file; the
\* dispatch ends only on a valid selection or on a cancel, and it does end
\* on these.
C9_RefusedIsAskedAgain ==
    [][ pc = "process_choice"
        => IF IsBlank(line')
           THEN pc' = "menu" /\ output'.kind = "cancelled"
           ELSE IF SelectionNumber(line') \in 1..Len(orders)
           THEN pc' = "save_output"
           ELSE /\ pc' = "process_choice"
                /\ output' = Msg("invalid_number", <<>>)
                /\ orders' = orders
                /\ UNCHANGED files ]_vars

\* every order of the list has at least one item
AllHaveItems(list) == \A i \in DOMAIN list : Len(list[i].items) >= 1

\* C10: every order of pending and of completed, in the files and in
\* memory, has at least one item.
C10_OrdersHaveItems ==
    /\ AllHaveItems(PendingDoc)
    /\ AllHaveItems(CompletedDoc)
    /\ AllHaveItems(orders)
    /\ AllHaveItems(completed_orders)
    /\ AllHaveItems(order)
    /\ AllHaveItems(processed_order)

\* C10 witness: an order is pending and another has been dispatched
C10_Witness ==
    /\ Len(PendingDoc) = 1
    /\ Len(CompletedDoc) = 1
    /\ Len(CompletedDoc[1].items) = 2

\* an id in trimmed, uppercase form: no blank at either end, no lower-case
\* letter
IsNormalForm(id) ==
    /\ Len(id) > 0 => (id[1] # " " /\ id[Len(id)] # " ")
    /\ \A i \in DOMAIN id : id[i] \notin {"a", "b", "c", "x"}

PairwiseDistinctIds(list) ==
    \A i, j \in DOMAIN list :
        i # j => list[i].order_id # list[j].order_id

\* C11: the ids of the pending orders, in the file and in memory, are
\* pairwise distinct and each is in trimmed, uppercase form.
C11_PendingIdsDistinct ==
    LET pending == PendingDoc IN
    /\ PairwiseDistinctIds(pending)
    /\ PairwiseDistinctIds(orders)
    /\ \A i \in DOMAIN pending : IsNormalForm(pending[i].order_id)
    /\ \A i \in DOMAIN orders : IsNormalForm(orders[i].order_id)

\* C11 witness: two orders are pending, the second added under an id typed
\* with blanks around it
C11_Witness ==
    /\ pc = "menu"
    /\ output = Msg("added", <<"A", "1">>)
    /\ Len(PendingDoc) = 2
    /\ PendingDoc[1].order_id = <<"B", "2">>
    /\ PendingDoc[2].order_id = <<"A", "1">>
    /\ orders = PendingDoc

\* lines a price prompt, and a quantity prompt, must refuse
BadPriceLines == { <<"-", "1">>, <<"x">>, <<>> }
BadQuantityLines == { <<"0">>, <<"-", "2">>, <<"x">> }

ItemsValid(its) ==
    \A i \in DOMAIN its :
        /\ its[i].price \in Nat
        /\ its[i].quantity \in Nat \ {0}

AllItemsValid(list) == \A i \in DOMAIN list : ItemsValid(list[i].items)

\* C12: every item stored has an integer price >= 0 and an integer
\* quantity > 0, in memory and in each file (a file starts without orders
\* and is looked at whenever it is written); a price or quantity line that
\* is no such integer is asked again, adds no item and changes neither
\* collection nor file.
C12_ItemsValid ==
    /\ []( /\ ItemsValid(items)
           /\ AllItemsValid(orders)
           /\ AllItemsValid(completed_orders)
           /\ pc = "add_quantity" => price \in Nat )
    /\ [][ /\ orders_json' # orders_json
                 => AllItemsValid(load_data(orders_json'))
           /\ output_orders_json' # output_orders_json
                 => AllItemsValid(load_data(output_orders_json'))
           /\ ( \/ pc = "add_price" /\ line' \in BadPriceLines
                \/ pc = "add_quantity" /\ line' \in BadQuantityLines )
              => ( /\ pc' = pc
                   /\ output'.kind \in {"not_integer", "negative_price",
                                        "non_positive_quantity"}
                   /\ items' = items
                   /\ orders' = orders
                   /\ UNCHANGED files ) ]_vars

\* C12 witness: with one order stored and one item collected, the price
\* prompt has just refused the line "-1"
C12_Witness ==
    /\ pc = "add_price"
    /\ line = <<"-", "1">>
    /\ output.kind = "negative_price"
    /\ Len(items) = 1
    /\ Len(PendingDoc) = 1
    /\ Len(PendingDoc[1].items) = 2


\* files that hold no list of orders: absent, empty, blank, cut short, or
\* holding a number, an object or a list of numbers
AnomalousSlots ==
    { [exists |-> FALSE, text |-> <<>>],
      [exists |-> TRUE, text |-> <<>>],
      [exists |-> TRUE, text |-> <<Tok("ws")>>],
      [exists |-> TRUE, text |-> <<Tok("["), Tok("{")>>],
      [exists |-> TRUE, text |-> <<NumTok(0)>>],
      [exists |-> TRUE, text |-> <<Tok("{"), Tok("}")>>],
      [exists |-> TRUE, text |-> <<Tok("["), NumTok(0), Tok("]")>>] }

\* C13: load_data of a file that is absent, empty, blank, malformed or
\* that parses to something other than a list of orders returns the empty
\* list.
C13_LoadFailsSoft ==
    (pc = "loaded" /\ output_orders_json \in AnomalousSlots)
        => /\ load_data_type(output_orders_json) = "list"
           /\ completed_orders = <<>>

\* C14: save_orders of a list of orders followed by load_data of the same
\* file returns an equal list, whatever the file held before.
C14_RoundTrip ==
    pc = "reloaded" =>
        /\ load_data_type(output_orders_json) = "list"
        /\ completed_orders = orders

\* C14 witness: two orders, the first with two items, have been saved over
\* a file that held one order and have been loaded again
C14_Witness ==
    /\ pc = "reloaded"
    /\ pre[2].exists
    /\ Len(pre[2].text) > 3
    /\ Len(completed_orders) = 2
    /\ Len(completed_orders[1].items) = 2
    /\ completed_orders[1].items[1].price = 100
    /\ completed_orders[2].customer = <<"B", "o", "b">>

\* the sum of price * quantity over the first n items
RECURSIVE ItemsSum(_, _)
ItemsSum(its, n) ==
    IF n = 0 THEN 0
    ELSE ItemsSum(its, n - 1) + its[n].price * its[n].quantity

\* the decimal digits of a natural number
RECURSIVE Decimal(_)
Decimal(n) ==
    IF n < 10
    THEN << <<"0", "1", "2", "3", "4", "5", "6", "7", "8", "9">>[n + 1] >>
    ELSE Decimal(n \div 10) \o Decimal(n % 10)

\* C15: calculate_order_total returns the sum of price * quantity over the
\* items of the order and leaves the order as it was; the total printed
\* for the order by the report is the same number.
C15_TotalIsSum ==
    /\ []( pc \in {"totalled", "printed"} =>
              total = ItemsSum(order[1].items, Len(order[1].items)) )
    /\ []( pc = "printed" =>
              /\ output.kind = "order_total"
              /\ output.id =
                    Decimal(ItemsSum(order[1].items, Len(order[1].items))) )
    /\ [][ (pc = "call" /\ pc' = "totalled") =>
              /\ orders' = orders
              /\ \E i \in DOMAIN orders : order' = <<orders[i]>> ]_vars

\* C15 witness: the total of an order of two items, 100 x 2 and 0 x 2, has
\* been computed and printed
C15_Witness ==
    /\ pc = "printed"
    /\ Len(order[1].items) = 2
    /\ total = 200
    /\ output.id = <<"2", "0", "0">>


\* how many times o occurs in list
Count(list, o) == Cardinality({ i \in DOMAIN list : list[i] = o })

\* how often o occurs in the two files together, now and when the current
\* operation was chosen
CopiesNow(o) == Count(PendingDoc, o) + Count(CompletedDoc, o)
CopiesBefore(o) == Count(PrePending, o) + Count(PreCompleted, o)

\* C16: with every write succeeding, each order created by a successful
\* add is in exactly one of the pending and the completed file: an add
\* returns with the new order put once into pending and nothing else
\* changed, a dispatch returns with every order in the two files together
\* as often as before, outside these no file is changed, and whenever a
\* file has been written or an add has succeeded the two files hold as
\* many orders as there were successful adds.  An add or a dispatch
\* returns with the files equal to the lists in memory.
C16_ExactlyOneCollection ==
    /\ []( pc # "save_output" =>
              IF pc = "menu" /\ output.kind = "added"
              THEN LET pending == PendingDoc IN
                   /\ Len(pending) = Len(PrePending) + 1
                   /\ SubSeq(pending, 1, Len(pending) - 1) = PrePending
                   /\ output_orders_json = pre[2]
              ELSE IF pc = "menu" /\ output.kind = "dispatched"
              THEN \A o \in Range(PrePending) \cup Range(PreCompleted)
                         \cup Range(PendingDoc) \cup Range(CompletedDoc) :
                      CopiesNow(o) = CopiesBefore(o)
              ELSE files = pre )
    /\ [][ /\ (pc' # "save_output" /\ (files' # files \/ adds' # adds))
              => Len(load_data(orders_json'))
                    + Len(load_data(output_orders_json')) = adds'
           /\ (pc # "menu" /\ pc' = "menu"
                  /\ output'.kind \in {"added", "dispatched"})
              => /\ adds' =
                       IF output'.kind = "added" THEN adds + 1 ELSE adds
                 /\ load_data(orders_json') = orders'
                 /\ output'.kind = "dispatched" =>
                       load_data(output_orders_json') = completed_orders
         ]_vars

\* C16 witness: of two orders added, one has been dispatched and one is
\* pending
C16_Witness ==
    /\ Dispatched
    /\ adds = 2
    /\ Len(PendingDoc) = 1
    /\ Len(CompletedDoc) = 1
    /\ PendingDoc[1] # CompletedDoc[1]
    /\ orders = PendingDoc

C18_CompletedNotConsulted ==
    [][ ( /\ pc = "add_order_id"
          /\ \A i \in DOMAIN PendingDoc :
                IdClass(PendingDoc[i].order_id) # IdClass(line') )
        => ( /\ pc' = "add_customer"
             /\ order_id' = NormalId(line') ) ]_vars

\* C18 witness: the completed file holds two orders with the same id
C18_Witness ==
    /\ Dispatched
    /\ Len(CompletedDoc) = 2
    /\ CompletedDoc[1].order_id = CompletedDoc[2].order_id
    /\ Len(PendingDoc) = 0

\* a file too short to hold an order: absent, or of at most the two
\* brackets of an empty list
HoldsNoOrder(file) == ~file.exists \/ Len(file.text) <= 2

\* C19: no step of a dispatch that writes a file, the failure of its
\* second write included, leaves an order in the pending file and the
\* completed file together more than once, unless it was there as often
\* when the dispatch was chosen; and the stop between the two writes
\* leaves the files as they are.  So the order dispatched, once in pending
\* before, is never in both.
C19_NeverInBoth ==
    [][ (pc \in {"process_choice", "save_output"}) =>
          /\ pre' = pre
          /\ ( /\ files' # files
               /\ ~HoldsNoOrder(orders_json')
               /\ ~HoldsNoOrder(output_orders_json') )
             => LET pending == load_data(orders_json')
                    completed == load_data(output_orders_json') IN
                \A o \in Range(pending) \cap Range(completed) :
                    Count(pending, o) + Count(completed, o)
                       <= CopiesBefore(o)
      ]_vars

\* C19 witness: the program has stopped between the two writes and the
\* order dispatched is in neither file
C19_Witness ==
    /\ pc \in {"stopped", "crashed"}
    /\ Len(PrePending) = 1
    /\ CopiesBefore(PrePending[1]) = 1
    /\ CopiesNow(PrePending[1]) = 0

\* C20: the duplicate test comes first: a duplicate id is answered at once
\* with the duplicate result, before a customer or an item is asked for;
\* the no-items result is given only when the item entry is ended.
C20_ChecksInOrder ==
    [][ /\ ( /\ pc = "add_order_id"
             /\ \E i \in DOMAIN PendingDoc :
                   IdClass(PendingDoc[i].order_id) = IdClass(line') )
           => ( /\ pc' = "menu"
                /\ output'.kind = "duplicate" )
        /\ (pc # "menu" /\ output'.kind = "duplicate")
           => ( /\ pc = "add_order_id"
                /\ customer = <<>>
                /\ items = <<>> )
        /\ (pc # "menu" /\ output'.kind = "no_items")
           => ( /\ pc = "add_name"
                /\ IsBlank(line')
                /\ order_id # <<>>
                /\ \A i \in DOMAIN PendingDoc :
                      PendingDoc[i].order_id # order_id )
      ]_vars

\* C20 witness: with an order pending, its id typed with blanks around it
\* has been answered with the duplicate result
C20_Witness ==
    /\ pc = "menu"
    /\ output.kind = "duplicate"
    /\ line = <<" ", "A", "1", " ">>
    /\ Len(PendingDoc) = 1
    /\ customer = <<>>
    /\ items = <<>>

=============================================================================
